---- MODULE Spec2Model ----
(***************************************************************************)
(* Model of src/bin/main.rs: the WS2812 pulse-timing calculator            *)
(* (led_pulses_for_clock), the frame encoder (ws2812_encode), the          *)
(* voltage-to-colour map (voltage_to_color) and the sense-map-transmit     *)
(* loop of main.                                                           *)
(***************************************************************************)
EXTENDS Integers, Sequences, FiniteSets

VARIABLES
    pc,             \* position of the task: see the specifications below
    src_clock_mhz,  \* clock frequency handed to led_pulses_for_clock
    pulses,         \* <<zero-pattern, one-pattern>>
    adc_value,      \* last value the ADC produced (environment)
    last_read,      \* outcome of the last adc.read_oneshot poll
    raw,            \* main: raw
    voltage_mv,     \* main: voltage_mv / argument of voltage_to_color
    color,          \* main: color
    rmt_buffer,     \* main: rmt_buffer, 25 slots
    channel,        \* who holds the TX channel handle
    wire,           \* slots the hardware has shifted out in this transaction
    rmt_hw,         \* RMT transmitter: idle, sending, done or fault
    failed,         \* which unwrap() panicked, or "none"
    log             \* last record handed to info!

vars == <<pc, src_clock_mhz, pulses, adc_value, last_read, raw, voltage_mv,
          color, rmt_buffer, channel, wire, rmt_hw, failed, log>>

-----------------------------------------------------------------------------
(* Program constants.                                                      *)

CODE_PERIOD_NS == 1250
T0H_NS == 400
T0L_NS == CODE_PERIOD_NS - T0H_NS
T1H_NS == 850
T1L_NS == CODE_PERIOD_NS - T1H_NS
BUFFER_SIZE == 25
MIN_VOLTAGE_MV == 500
MAX_VOLTAGE_MV == 2800
ADC_MAX_CODE == 4095
ADC_FULL_SCALE_MV == 3300
APB_CLOCK_MHZ == 80

U16 == 65536
U8_MAX == 255

-----------------------------------------------------------------------------
(* f32 arithmetic.  A non-negative finite f32 is [m, e] with value m * 2^e,*)
(* m = 0 (and e = 0) or 2^23 <= m < 2^24.  Every operation rounds to       *)
(* nearest, ties to even, as IEEE 754 binary32 does.  All intermediate     *)
(* integers stay below 2^31.                                               *)

P23 == 8388608
P24 == 16777216
P12 == 4096

F32Zero == [m |-> 0, e |-> 0]

RECURSIVE BitLen(_)
BitLen(n) == IF n = 0 THEN 0 ELSE 1 + BitLen(n \div 2)

RECURSIVE F32Norm(_, _)
\* n * 2^e with 0 < n < 2^24, shifted left until the leading bit is bit 23
F32Norm(n, e) == IF n >= P23 THEN [m |-> n, e |-> e] ELSE F32Norm(2 * n, e - 1)

\* q + (rem / (2 * half)) rounded to an integer, ties to even
RoundHalfEven(q, rem2, den) ==
    IF rem2 > den \/ (rem2 = den /\ q % 2 = 1) THEN q + 1 ELSE q

\* a significand that rounding carried up to 2^24 is renormalised
F32Carry(q, e) == IF q = P24 THEN [m |-> P23, e |-> e + 1] ELSE [m |-> q, e |-> e]

\* n * 2^e, 0 <= n < 2^31, rounded to 24 significant bits
F32Round(n, e) ==
    IF n = 0 THEN F32Zero
    ELSE IF n < P24 THEN F32Norm(n, e)
    ELSE LET d == BitLen(n) - 24
             q == n \div (2 ^ d)
             r == n % (2 ^ d)
         IN  F32Carry(RoundHalfEven(q, 2 * r, 2 ^ d), e + d)

\* `n as f32` for an unsigned integer n < 2^31
F32FromInt(n) == F32Round(n, 0)

\* a <= b
F32Le(a, b) ==
    IF a.m = 0 THEN TRUE
    ELSE IF b.m = 0 THEN FALSE
    ELSE a.e < b.e \/ (a.e = b.e /\ a.m <= b.m)

\* a - b for a >= b >= 0
F32Sub(a, b) ==
    IF b.m = 0 THEN a
    ELSE LET d == a.e - b.e
         IN  IF d <= 6
             THEN F32Round(a.m * (2 ^ d) - b.m, b.e)
             ELSE \* two guard bits and a sticky bit below a's last place
                  LET sh == IF d - 2 > 24 THEN 24 ELSE d - 2
                      qb == b.m \div (2 ^ sh)
                      sticky == IF b.m % (2 ^ sh) # 0 THEN 1 ELSE 0
                  IN  F32Round(2 * (4 * a.m - qb) - sticky, a.e - 3)

\* a * b
F32Mul(a, b) ==
    IF a.m = 0 \/ b.m = 0 THEN F32Zero
    ELSE LET a1 == a.m \div P12
             a0 == a.m % P12
             b1 == b.m \div P12
             b0 == b.m % P12
             mid == a1 * b0 + a0 * b1
             lo_raw == a0 * b0 + (mid % P12) * P12
             hi == a1 * b1 + (mid \div P12) + (lo_raw \div P24)
             lo == lo_raw % P24
             e == a.e + b.e
         IN  IF hi >= P23
             THEN F32Carry(RoundHalfEven(hi, 2 * lo, P24), e + 24)
             ELSE F32Carry(RoundHalfEven(2 * hi + (lo \div P23),
                                         2 * (lo % P23), P23), e + 23)

RECURSIVE F32DivBits(_, _, _, _)
\* long division: quotient bits are produced until q has 24 of them
F32DivBits(q, r, den, k) ==
    IF q >= P23 THEN <<q, r, k>>
    ELSE IF 2 * r >= den THEN F32DivBits(2 * q + 1, 2 * r - den, den, k + 1)
    ELSE F32DivBits(2 * q, 2 * r, den, k + 1)

\* a / b for b > 0
F32Div(a, b) ==
    IF a.m = 0 THEN F32Zero
    ELSE LET d == F32DivBits(a.m \div b.m, a.m % b.m, b.m, 0)
         IN  F32Carry(RoundHalfEven(d[1], 2 * d[2], b.m), a.e - b.e - d[3])

\* truncation toward zero (`as u32` of a value below 2^31)
F32Trunc(a) == IF a.e >= 0 THEN a.m * (2 ^ a.e) ELSE a.m \div (2 ^ (0 - a.e))

\* `as u8`: truncation toward zero, saturating at 255
F32AsU8(a) == IF a.m = 0 THEN 0
              ELSE IF a.e >= 0 THEN U8_MAX
              ELSE IF F32Trunc(a) > U8_MAX THEN U8_MAX ELSE F32Trunc(a)

-----------------------------------------------------------------------------
(* Pure functions of the program.                                          *)

High == "High"
Low == "Low"

PulseCode_new(level1, length1, level2, length2) ==
    [level1 |-> level1, length1 |-> length1, level2 |-> level2, length2 |-> length2]

PulseCode_default == PulseCode_new(Low, 0, Low, 0)

TicksU16_rounded(ns, clock_mhz) == ((ns * clock_mhz + 500) \div 1000) % U16

\* ((ns * src_clock_mhz) / 1000) as u16; within the clock inputs of this
\* model the u32 product stays below 2^32
TicksU16(ns, clock_mhz) == ((ns * clock_mhz) \div 1000) % U16

led_pulses_for_clock(clock_mhz) ==
    << PulseCode_new(High, TicksU16(T0H_NS, clock_mhz), Low, TicksU16(T0L_NS, clock_mhz)),
       PulseCode_new(High, TicksU16(T1H_NS, clock_mhz), Low, TicksU16(T1L_NS, clock_mhz)) >>

\* (byte & (1 << bit)) != 0
BitIsSet(byte, bit) == (byte \div (2 ^ bit)) % 2 = 1

RevBit_forward(j) == j

\* (0..8).rev(): the j-th bit visited is bit 7 - j
RevBit(j) == 7 - j

RECURSIVE EncodeLoop(_, _, _, _, _, _)
\* the nested for loops of ws2812_encode: bytes[i], the j-th bit of
\* (0..8).rev(), slot idx (0-based)
EncodeLoop(bytes, p, buf, i, j, idx) ==
    IF i > Len(bytes) THEN buf
    ELSE IF j > 7 THEN EncodeLoop(bytes, p, buf, i + 1, 0, idx)
    ELSE LET is_set == BitIsSet(bytes[i], RevBit(j))
             code == IF is_set THEN p[2] ELSE p[1]
         IN  EncodeLoop(bytes, p, [buf EXCEPT ![idx + 1] = code], i, j + 1, idx + 1)

ChannelOrder_rgb(c) == <<c.r, c.g, c.b>>

\* let bytes = [color.g, color.r, color.b]
ChannelOrder(c) == <<c.g, c.r, c.b>>

ws2812_encode(c, p, buf) ==
    [EncodeLoop(ChannelOrder(c), p, buf, 1, 0, 0)
        EXCEPT ![BUFFER_SIZE] = PulseCode_new(Low, 0, Low, 0)]

RGB8_new(r, g, b) == [r |-> r, g |-> g, b |-> b]

F32One == F32FromInt(1)

\* t of voltage_to_color
Interp(mv) ==
    LET v == F32FromInt(mv)
        lo == F32FromInt(MIN_VOLTAGE_MV)
        hi == F32FromInt(MAX_VOLTAGE_MV)
    IN  IF F32Le(v, lo) THEN F32Zero
        ELSE IF F32Le(hi, v) THEN F32One
        ELSE F32Div(F32Sub(v, lo), F32Sub(hi, lo))

voltage_to_color_swapped(mv) ==
    LET t == Interp(mv)
        r == F32AsU8(F32Mul(F32FromInt(255), F32Sub(F32One, t)))
        b == F32AsU8(F32Mul(F32FromInt(255), t))
    IN  RGB8_new(b, 0, r)

voltage_to_color(mv) ==
    LET t == Interp(mv)
        r == F32AsU8(F32Mul(F32FromInt(255), F32Sub(F32One, t)))
        b == F32AsU8(F32Mul(F32FromInt(255), t))
    IN  RGB8_new(r, 0, b)

\* ((raw as f32 / 4095.0) * 3300.0) as u32
RawToMillivolts(x) ==
    F32Trunc(F32Mul(F32Div(F32FromInt(x), F32FromInt(ADC_MAX_CODE)),
                    F32FromInt(ADC_FULL_SCALE_MV)))

\* voltage_to_color, tabulated over the calibration range
ColorTable == [v \in MIN_VOLTAGE_MV..MAX_VOLTAGE_MV |-> voltage_to_color(v)]

-----------------------------------------------------------------------------
(* Inputs of the model.                                                    *)

MaxClockMhz == 80000
MaxVoltageMv == 3400
MaxLoopSamples == 32

NoValue == 0 - 1
NoColor == RGB8_new(NoValue, NoValue, NoValue)

ClockInputs == 1..MaxClockMhz
\* every voltage up to the bound, and u32 values beyond it: the largest u16,
\* the first integer f32 cannot hold, and 2^31 - 1
VoltageInputs == (0..MaxVoltageMv) \cup {65535, 16777217, 2147483647}
AdcCodes == 0..ADC_MAX_CODE
\* the codes the ADC produces in the loop: evenly spread over the 12-bit
\* range, both ends included
LoopCodes == {(k * ADC_MAX_CODE) \div MaxLoopSamples : k \in 0..MaxLoopSamples} \cup {2069}
ByteInputs == {0, 1, 85, 126, 129, 170, 176, 255}
ColorInputs == {RGB8_new(r, g, b) : r \in ByteInputs, g \in ByteInputs, b \in ByteInputs}
PulseInputs == {led_pulses_for_clock(f) : f \in {1, 40, APB_CLOCK_MHZ}}
Stale == PulseCode_new(High, 1, High, 1)
EmptyBuffer == [i \in 1..BUFFER_SIZE |-> PulseCode_default]
BufferInputs == { EmptyBuffer,
                  [i \in 1..BUFFER_SIZE |-> Stale],
                  ws2812_encode(RGB8_new(255, 255, 255),
                                led_pulses_for_clock(APB_CLOCK_MHZ), EmptyBuffer) }

\* peripherals as bring-up leaves them: nothing read, nothing sent
PeripheralsIdle ==
    /\ adc_value = NoValue
    /\ last_read = "none"
    /\ channel = "main"
    /\ wire = <<>>
    /\ rmt_hw = "idle"
    /\ failed = "none"
    /\ log = <<>>

\* the locals of one loop iteration, out of scope
NoSample ==
    /\ raw = NoValue
    /\ voltage_mv = NoValue
    /\ color = NoColor

-----------------------------------------------------------------------------
(* led_pulses_for_clock applied to every clock input.                      *)

InitPulses ==
    /\ pc = "pulses_call"
    /\ src_clock_mhz \in ClockInputs
    /\ pulses = <<PulseCode_default, PulseCode_default>>
    /\ rmt_buffer = EmptyBuffer
    /\ NoSample
    /\ PeripheralsIdle

CallPulses ==
    /\ pc = "pulses_call"
    /\ pulses' = led_pulses_for_clock(src_clock_mhz)
    /\ pc' = "pulses_ret"
    /\ UNCHANGED <<src_clock_mhz, adc_value, last_read, raw, voltage_mv, color,
                   rmt_buffer, channel, wire, rmt_hw, failed, log>>

NextPulses == CallPulses

SpecPulses == InitPulses /\ [][NextPulses]_vars

-----------------------------------------------------------------------------
(* ws2812_encode applied to every colour, pattern pair and prior buffer.   *)

InitEncode ==
    /\ pc = "encode_call"
    /\ src_clock_mhz = APB_CLOCK_MHZ
    /\ pulses \in PulseInputs
    /\ color \in ColorInputs
    /\ rmt_buffer \in BufferInputs
    /\ raw = NoValue
    /\ voltage_mv = NoValue
    /\ PeripheralsIdle

CallEncode ==
    /\ pc = "encode_call"
    /\ rmt_buffer' = ws2812_encode(color, pulses, rmt_buffer)
    /\ pc' = "encode_ret"
    /\ UNCHANGED <<src_clock_mhz, pulses, adc_value, last_read, raw, voltage_mv,
                   color, channel, wire, rmt_hw, failed, log>>

NextEncode == CallEncode

SpecEncode == InitEncode /\ [][NextEncode]_vars

-----------------------------------------------------------------------------
(* voltage_to_color applied to every voltage input, and to the voltage of  *)
(* every raw ADC code as the loop converts it.                             *)

InitColor ==
    /\ pc = "color_call"
    /\ src_clock_mhz = APB_CLOCK_MHZ
    /\ pulses = led_pulses_for_clock(APB_CLOCK_MHZ)
    /\ rmt_buffer = EmptyBuffer
    /\ NoSample
    /\ PeripheralsIdle

MapVoltage(v) ==
    /\ pc = "color_call"
    /\ raw' = NoValue
    /\ voltage_mv' = v
    /\ color' = voltage_to_color(v)
    /\ pc' = "color_ret"
    /\ UNCHANGED <<src_clock_mhz, pulses, adc_value, last_read, rmt_buffer,
                   channel, wire, rmt_hw, failed, log>>

MapRaw(x) ==
    /\ pc = "color_call"
    /\ raw' = x
    /\ voltage_mv' = RawToMillivolts(x)
    /\ color' = voltage_to_color(RawToMillivolts(x))
    /\ pc' = "color_ret"
    /\ UNCHANGED <<src_clock_mhz, pulses, adc_value, last_read, rmt_buffer,
                   channel, wire, rmt_hw, failed, log>>

NextColor ==
    \/ \E v \in VoltageInputs : MapVoltage(v)
    \/ \E x \in AdcCodes : MapRaw(x)

SpecColor == InitColor /\ [][NextColor]_vars

-----------------------------------------------------------------------------
(* The sense-map-transmit loop of main.                                    *)

AdcResults ==
    {[kind |-> "Ok", value |-> x] : x \in LoopCodes}
        \cup {[kind |-> "WouldBlock", value |-> NoValue],
              [kind |-> "Other", value |-> NoValue]}

nb_block_fabricate(res) ==
    CASE res.kind = "WouldBlock" -> [kind |-> "Ok", value |-> 0]
      [] res.kind = "Other" -> [kind |-> "Err", value |-> NoValue]
      [] res.kind = "Ok" -> [kind |-> "Ok", value |-> res.value]

\* nb::block!: WouldBlock polls again, Other breaks with Err, Ok breaks with
\* the value
nb_block(res) ==
    CASE res.kind = "WouldBlock" -> [kind |-> "retry", value |-> NoValue]
      [] res.kind = "Other" -> [kind |-> "Err", value |-> NoValue]
      [] res.kind = "Ok" -> [kind |-> "Ok", value |-> res.value]

Init ==
    /\ pc = "sample"
    /\ src_clock_mhz = APB_CLOCK_MHZ
    /\ pulses = led_pulses_for_clock(APB_CLOCK_MHZ)
    /\ rmt_buffer = EmptyBuffer
    /\ NoSample
    /\ PeripheralsIdle

\* lines 131-132 for every code the ADC produces in the loop:
\* voltage_mv = ((raw as f32 / 4095.0) * 3300.0) as u32, color = voltage_to_color(voltage_mv)
Converted ==
    [x \in LoopCodes |->
        [voltage_mv |-> RawToMillivolts(x),
         color |-> voltage_to_color(RawToMillivolts(x))]]

\* one poll of adc.read_oneshot under nb::block!, and on a value the
\* conversion, the mapping and the encode that follow it
Sample(res) ==
    /\ pc = "sample"
    /\ last_read' = res.kind
    /\ adc_value' = IF res.kind = "Ok" THEN res.value ELSE adc_value
    /\ LET out == nb_block(res)
       IN  CASE out.kind = "retry" ->
                  UNCHANGED <<pc, raw, voltage_mv, color, rmt_buffer, failed>>
             [] out.kind = "Err" ->
                  /\ pc' = "panicked"
                  /\ failed' = "adc"
                  /\ UNCHANGED <<raw, voltage_mv, color, rmt_buffer>>
             [] out.kind = "Ok" ->
                  /\ raw' = out.value
                  /\ voltage_mv' = Converted[out.value].voltage_mv
                  /\ color' = Converted[out.value].color
                  /\ rmt_buffer' = ws2812_encode(Converted[out.value].color,
                                                 pulses, rmt_buffer)
                  /\ pc' = "transmit"
                  /\ UNCHANGED failed
    /\ UNCHANGED <<src_clock_mhz, pulses, channel, wire, rmt_hw, log>>

SampleOk == \E x \in LoopCodes : Sample([kind |-> "Ok", value |-> x])

TransmitErr_retry ==
    /\ pc = "transmit"
    /\ failed' = "transmit"
    /\ UNCHANGED <<pc, src_clock_mhz, pulses, adc_value, last_read, raw, voltage_mv,
                   color, rmt_buffer, channel, wire, rmt_hw, log>>

\* channel.transmit(&rmt_buffer) is Ok: the transaction owns the channel
TransmitOk ==
    /\ pc = "transmit"
    /\ channel = "main"
    /\ channel' = "transaction"
    /\ rmt_hw' = "sending"
    /\ wire' = <<>>
    /\ pc' = "wait"
    /\ UNCHANGED <<src_clock_mhz, pulses, adc_value, last_read, raw, voltage_mv,
                   color, rmt_buffer, failed, log>>

\* channel.transmit(&rmt_buffer) is Err: unwrap() panics
TransmitErr ==
    /\ pc = "transmit"
    /\ failed' = "transmit"
    /\ pc' = "panicked"
    /\ UNCHANGED <<src_clock_mhz, pulses, adc_value, last_read, raw, voltage_mv,
                   color, rmt_buffer, channel, wire, rmt_hw, log>>

\* the transmitter shifts the next slot of the borrowed buffer out
HwShift ==
    /\ rmt_hw = "sending"
    /\ Len(wire) < BUFFER_SIZE
    /\ wire' = Append(wire, rmt_buffer[Len(wire) + 1])
    /\ rmt_hw' = IF Len(wire) + 1 = BUFFER_SIZE THEN "done" ELSE "sending"
    /\ UNCHANGED <<pc, src_clock_mhz, pulses, adc_value, last_read, raw, voltage_mv,
                   color, rmt_buffer, channel, failed, log>>

WaitOk_early ==
    /\ pc = "wait"
    /\ channel' = "main"
    /\ pc' = "report"
    /\ UNCHANGED <<src_clock_mhz, pulses, adc_value, last_read, raw, voltage_mv,
                   color, rmt_buffer, wire, rmt_hw, failed, log>>

\* transaction.wait() is Ok once the frame has drained: the channel is back
WaitOk ==
    /\ pc = "wait"
    /\ rmt_hw = "done"
    /\ channel' = "main"
    /\ rmt_hw' = "idle"
    /\ pc' = "report"
    /\ UNCHANGED <<src_clock_mhz, pulses, adc_value, last_read, raw, voltage_mv,
                   color, rmt_buffer, wire, failed, log>>

\* transaction.wait() is Err while the frame is in flight: unwrap() panics
WaitErr ==
    /\ pc = "wait"
    /\ rmt_hw = "sending"
    /\ rmt_hw' = "fault"
    /\ failed' = "wait"
    /\ pc' = "panicked"
    /\ UNCHANGED <<src_clock_mhz, pulses, adc_value, last_read, raw, voltage_mv,
                   color, rmt_buffer, channel, wire, log>>

\* info!("Voltage: {}mV, LED color: R={}, G={}, B={}", ...)
Report ==
    /\ pc = "report"
    /\ log' = <<voltage_mv, color.r, color.g, color.b>>
    /\ pc' = "pace"
    /\ UNCHANGED <<src_clock_mhz, pulses, adc_value, last_read, raw, voltage_mv,
                   color, rmt_buffer, channel, wire, rmt_hw, failed>>

\* Timer::after(10 ms).await, then the next iteration: the locals of this
\* one are gone, the record is with the sink, the wire is quiet
Pace ==
    /\ pc = "pace"
    /\ pc' = "sample"
    /\ raw' = NoValue
    /\ voltage_mv' = NoValue
    /\ color' = NoColor
    /\ adc_value' = NoValue
    /\ last_read' = "none"
    /\ wire' = <<>>
    /\ log' = <<>>
    /\ UNCHANGED <<src_clock_mhz, pulses, rmt_buffer, channel, rmt_hw, failed>>

Next ==
    \/ \E res \in AdcResults : Sample(res)
    \/ TransmitOk
    \/ TransmitErr
    \/ HwShift
    \/ WaitOk
    \/ WaitErr
    \/ Report
    \/ Pace

Spec == Init /\ [][Next]_vars

\* the ADC's conversion time is bounded: a value is eventually produced
SpecFair == Spec /\ WF_vars(SampleOk)

-----------------------------------------------------------------------------
(* Properties of led_pulses_for_clock, under SpecPulses.                   *)

\* f times the difference, in ns, between the 1250 ns bit period and the
\* period of p at f MHz: 1250 * f - (high + low) * 1000
PeriodError(p, f) == CODE_PERIOD_NS * f - 1000 * (p.length1 + p.length2)

Abs(n) == IF n < 0 THEN 0 - n ELSE n

\* every tick count of the two patterns fits the u16 the code casts it to
FitsU16(f) == (850 * f) \div 1000 < U16

\* C1 as stated: for every clock f > 0 the period of either pattern, taken
\* back to nanoseconds, is within one tick (1000 / f ns) of 1250 ns.
C1_PeriodWithinOneTick ==
    pc = "pulses_ret" =>
        \A i \in 1..2 : Abs(PeriodError(pulses[i], src_clock_mhz)) <= 1000

\* C1 amended: for every clock f > 0 whose tick counts fit 16 bits, the
\* period of either pattern is never longer than 1250 ns and is short of it
\* by less than two ticks (each phase is truncated on its own).
C1_PeriodWithinTwoTicks ==
    (pc = "pulses_ret" /\ FitsU16(src_clock_mhz)) =>
        \A i \in 1..2 :
            /\ 0 <= PeriodError(pulses[i], src_clock_mhz)
            /\ PeriodError(pulses[i], src_clock_mhz) < 2000

\* the patterns of a clock whose period is short by more than one tick
C1_Witness ==
    /\ pc = "pulses_ret"
    /\ FitsU16(src_clock_mhz)
    /\ src_clock_mhz > 1
    /\ PeriodError(pulses[1], src_clock_mhz) > 1000
    /\ PeriodError(pulses[2], src_clock_mhz) > 1000

\* the (high, low) quotients of C2, as mathematical integers
Quotients(f) ==
    << PulseCode_new(High, (400 * f) \div 1000, Low, (850 * f) \div 1000),
       PulseCode_new(High, (850 * f) \div 1000, Low, (400 * f) \div 1000) >>

-----------------------------------------------------------------------------
(* Properties of ws2812_encode, under SpecEncode.                          *)

Terminator == PulseCode_new(Low, 0, Low, 0)

\* the frame of C3, slot s counted from 1: channel (s - 1) \div 8 of
\* (green, red, blue), bit 7 - ((s - 1) % 8)
ReferenceFrame(c, p) ==
    [s \in 1..25 |->
        IF s = 25 THEN Terminator
        ELSE LET byte == <<c.g, c.r, c.b>>[((s - 1) \div 8) + 1]
                 k == 7 - ((s - 1) % 8)
             IN  IF (byte \div (2 ^ k)) % 2 = 1 THEN p[2] ELSE p[1]]

\* C3: after ws2812_encode, whatever the colour, the patterns and the prior
\* content, the 25 slots are the reference frame: green, red, blue, each
\* most significant bit first, then the terminator with both durations 0;
\* no slot keeps its prior value.
C3_EncodeIsReferenceFrame ==
    pc = "encode_ret" =>
        /\ DOMAIN rmt_buffer = 1..25
        /\ rmt_buffer = ReferenceFrame(color, pulses)
        /\ rmt_buffer[25].length1 = 0 /\ rmt_buffer[25].length2 = 0
        /\ \A s \in 1..24 : rmt_buffer[s] \in {pulses[1], pulses[2]}
        /\ color = RGB8_new(255, 0, 0) =>
              /\ \A s \in 1..8 : rmt_buffer[s] = pulses[1]
              /\ \A s \in 9..16 : rmt_buffer[s] = pulses[2]
              /\ \A s \in 17..24 : rmt_buffer[s] = pulses[1]

\* colour (255, 0, 0) encoded with the patterns of the 80 MHz clock
C3_Witness ==
    /\ pc = "encode_ret"
    /\ color = RGB8_new(255, 0, 0)
    /\ pulses = led_pulses_for_clock(80)
    /\ rmt_buffer[9] = PulseCode_new(High, 68, Low, 32)
    /\ rmt_buffer[1] = PulseCode_new(High, 32, Low, 68)

\* the slots (counted from 0) of the frame that hold the one-pattern, and
\* those that hold the zero-pattern
SlotsAre(ones, zeros) ==
    /\ \A s \in ones : rmt_buffer[s + 1] = pulses[2]
    /\ \A s \in zeros : rmt_buffer[s + 1] = pulses[1]

\* C4 as stated: green = 0b10110000, red = blue = 0 puts the one-pattern at
\* slots 0 and 2 and the zero-pattern at slots 1, 3, 4, 5, 6, 7 and 8..23.
C4_OnesAtSlots0And2 ==
    (pc = "encode_ret" /\ color = RGB8_new(0, 176, 0)) =>
        SlotsAre({0, 2}, {1, 3, 4, 5, 6, 7} \cup (8..23))

\* C4 amended: green = 0b10110000 (bits 7, 5 and 4 set), red = blue = 0 puts
\* the one-pattern at slots 0, 2 and 3 and the zero-pattern at slots 1, 4, 5,
\* 6, 7 and 8..23.
C4_OnesAtSlots0And2And3 ==
    (pc = "encode_ret" /\ color = RGB8_new(0, 176, 0)) =>
        SlotsAre({0, 2, 3}, {1, 4, 5, 6, 7} \cup (8..23))

\* green = 0b10110000 encoded with two distinct patterns
C4_Witness ==
    /\ pc = "encode_ret"
    /\ color = RGB8_new(0, 176, 0)
    /\ pulses[1] # pulses[2]
    /\ rmt_buffer[4] = pulses[2]

-----------------------------------------------------------------------------
(* Properties of voltage_to_color, under SpecColor.                        *)

\* C5: voltage_to_color clamps: (255, 0, 0) at or below 500 mV, (0, 0, 255)
\* at or above 2800 mV, green 0 everywhere; raw code 0 is 0 mV and
\* (255, 0, 0), raw code 4095 is 3300 mV and (0, 0, 255).
C5_Clamps ==
    pc = "color_ret" =>
        /\ color.g = 0
        /\ voltage_mv <= 500 => color = RGB8_new(255, 0, 0)
        /\ voltage_mv >= 2800 => color = RGB8_new(0, 0, 255)
        /\ raw = 0 => (voltage_mv = 0 /\ color = RGB8_new(255, 0, 0))
        /\ raw = 4095 => (voltage_mv = 3300 /\ color = RGB8_new(0, 0, 255))

\* the full-scale raw code, mapped
C5_Witness ==
    /\ pc = "color_ret"
    /\ raw = 4095
    /\ voltage_mv = 3300
    /\ color = RGB8_new(0, 0, 255)

\* c is an integer nearest to 255 * num / 2300
NearestTo(c, num) == 2 * Abs(2300 * c - 255 * num) <= 2300

\* C6: between the thresholds, with t = (v - 500) / 2300, red is
\* 255 * (1 - t) and blue is 255 * t, each rounded to nearest; 1667 mV
\* (raw code 2069) gives (126, 0, 129).
C6_RoundsToNearest ==
    (pc = "color_ret" /\ 500 < voltage_mv /\ voltage_mv < 2800) =>
        /\ NearestTo(color.r, 2800 - voltage_mv)
        /\ NearestTo(color.b, voltage_mv - 500)
        /\ raw = 2069 => (voltage_mv = 1667 /\ color = RGB8_new(126, 0, 129))

\* C7: on the calibration range red never rises and blue never falls: for
\* 500 <= v1 < v2 <= 2800, red(v1) >= red(v2) and blue(v1) <= blue(v2).
C7_Monotone ==
    (pc = "color_ret" /\ 500 <= voltage_mv /\ voltage_mv <= 2800) =>
        \A v2 \in (voltage_mv + 1)..2800 :
            /\ color.r >= ColorTable[v2].r
            /\ color.b <= ColorTable[v2].b

\* a voltage inside the range whose colour differs from both its neighbours'
C7_Witness ==
    /\ pc = "color_ret"
    /\ 510 < voltage_mv /\ voltage_mv < 2790
    /\ color.r < ColorTable[voltage_mv - 9].r
    /\ color.b < ColorTable[voltage_mv + 9].b

-----------------------------------------------------------------------------
(* Properties of the loop of main, under Spec and SpecFair.                *)

InIteration == pc \in {"transmit", "wait", "report", "pace"}

\* the frame of the value the ADC produced in this iteration
FrameOfSample ==
    ReferenceFrame(voltage_to_color(RawToMillivolts(adc_value)), pulses)

\* C8: the buffer is never written while a transmission is in flight; the
\* transmitter is busy only while the loop is in wait; when wait has returned
\* the wire has carried exactly the 25 slots encoded from this iteration's
\* sample and the channel handle is back; a new sample starts only with the
\* transmitter idle and the channel held by the loop, after the pace.
C8_NoWriteInFlight ==
    /\ [](rmt_hw \in {"sending", "done"} => (pc = "wait" /\ channel = "transaction"))
    /\ [](pc \in {"report", "pace"} =>
            /\ channel = "main"
            /\ rmt_hw = "idle"
            /\ Len(wire) = BUFFER_SIZE
            /\ \A s \in 1..BUFFER_SIZE : wire[s] = FrameOfSample[s]
            /\ rmt_buffer = FrameOfSample)
    /\ [](pc \in {"sample", "transmit"} =>
            (channel = "main" /\ rmt_hw = "idle" /\ wire = <<>>))
    /\ [][rmt_hw = "sending" => rmt_buffer' = rmt_buffer]_vars
    /\ [][rmt_buffer' # rmt_buffer => (pc = "sample" /\ pc' = "transmit")]_vars
    /\ [][(pc' = "sample" /\ pc # "sample") => pc = "pace"]_vars

\* a frame fully drained and the channel reclaimed, for the code 2069
C8_Witness ==
    /\ pc = "report"
    /\ raw = 2069
    /\ color = RGB8_new(125, 0, 129)
    /\ Len(wire) = BUFFER_SIZE
    /\ channel = "main"

\* C9: once starting the transmit or waiting for it has failed, nothing
\* happens any more: no sample, encode, transmit, report or pace step, no
\* further slot on the wire, and the channel is not taken again.
C9_TransmitFailureIsTerminal ==
    /\ [](failed \in {"transmit", "wait"} => pc = "panicked")
    /\ [][(failed \in {"transmit", "wait"}) => (UNCHANGED vars)]_vars
    /\ [][pc = "panicked" => (UNCHANGED vars)]_vars

\* wait failed with the frame half sent
C9_Witness ==
    /\ failed = "wait"
    /\ pc = "panicked"
    /\ Len(wire) > 0
    /\ Len(wire) < BUFFER_SIZE

\* C10: a not-ready poll leaves the loop in Sample with nothing computed and
\* nothing failed; the loop leaves Sample for Transmit only with the value
\* the ADC produced; and, the ADC eventually producing a value, Sample leads
\* to Transmit (or to the panic of an ADC error).
C10_SampleRetries ==
    /\ [](InIteration => (last_read = "Ok" /\ adc_value \in AdcCodes /\ raw = adc_value))
    /\ [](failed = "adc" => last_read = "Other")
    /\ [][(pc = "sample" /\ last_read' = "WouldBlock") =>
            (pc' = "sample" /\ UNCHANGED <<raw, voltage_mv, color, rmt_buffer,
                                           failed, adc_value, channel, wire>>)]_vars
    /\ (pc = "sample") ~> (pc = "transmit" \/ failed = "adc")

\* the loop still in Sample after a not-ready poll
C10_Witness ==
    /\ pc = "sample"
    /\ last_read = "WouldBlock"
    /\ failed = "none"
    /\ raw = NoValue

====
